---- MODULE Spec2Model ----
(***************************************************************************)
(* Obligation health calculator: formatObligation(obligation, pool).      *)
(* The function is pure; its numbers are bignumber.js decimals, which are *)
(* modelled exactly: a sign, a coefficient of decimal digits and a power  *)
(* of ten, plus the two non-numbers NaN and Infinity.  times, plus and    *)
(* minus are exact; dividedBy rounds half-up to DECIMAL_PLACES places.     *)
(***************************************************************************)
EXTENDS Integers, Sequences, FiniteSets

(***************************************************************************)
(* Natural numbers of any size: little-endian sequences of decimal digits *)
(* whose last (most significant) digit is not 0.  Zero is << >>.          *)
(***************************************************************************)
RECURSIVE NTrim(_)
NTrim(a) ==
  IF a = << >> THEN << >>
  ELSE IF a[Len(a)] = 0 THEN NTrim(SubSeq(a, 1, Len(a) - 1))
  ELSE a

RECURSIVE NFromInt(_)
NFromInt(n) ==
  IF n = 0 THEN << >> ELSE <<n % 10>> \o NFromInt(n \div 10)

NZeros(k) == [i \in 1..k |-> 0]

\* a * 10^k
NShift(a, k) == IF a = << >> THEN << >> ELSE NZeros(k) \o a

\* Carry propagation: the natural whose i-th place holds cols[i] (any size).
RECURSIVE NCarry(_, _, _)
NCarry(cols, i, carry) ==
  IF i > Len(cols) THEN NFromInt(carry)
  ELSE LET v == cols[i] + carry
       IN <<v % 10>> \o NCarry(cols, i + 1, v \div 10)

NDigit(a, i) == IF i <= Len(a) THEN a[i] ELSE 0

NAdd(a, b) ==
  LET n == IF Len(a) > Len(b) THEN Len(a) ELSE Len(b)
  IN NCarry([i \in 1..n |-> NDigit(a, i) + NDigit(b, i)], 1, 0)

RECURSIVE NSubB(_, _, _, _)
NSubB(a, b, i, borrow) ==
  IF i > Len(a) THEN << >>
  ELSE LET d == a[i] - NDigit(b, i) - borrow
       IN <<IF d < 0 THEN d + 10 ELSE d>>
            \o NSubB(a, b, i + 1, IF d < 0 THEN 1 ELSE 0)

\* a - b, for a >= b
NSub(a, b) == NTrim(NSubB(a, b, 1, 0))

RECURSIVE NCmpFrom(_, _, _)
NCmpFrom(a, b, i) ==
  IF i = 0 THEN 0
  ELSE IF a[i] < b[i] THEN -1
  ELSE IF a[i] > b[i] THEN 1
  ELSE NCmpFrom(a, b, i - 1)

\* -1, 0 or 1 as a < b, a = b, a > b
NCmp(a, b) ==
  IF Len(a) < Len(b) THEN -1
  ELSE IF Len(a) > Len(b) THEN 1
  ELSE NCmpFrom(a, b, Len(a))

\* a * k, for a digit k
NMulSmall(a, k) ==
  IF k = 0 THEN << >> ELSE NCarry([i \in 1..Len(a) |-> a[i] * k], 1, 0)

\* The k-th column of the schoolbook product: the sum of a[i] * b[k + 1 - i].
RECURSIVE NColumn(_, _, _, _, _)
NColumn(a, b, k, i, hi) ==
  IF i > hi THEN 0 ELSE a[i] * b[k + 1 - i] + NColumn(a, b, k, i + 1, hi)

NMul(a, b) ==
  IF a = << >> \/ b = << >> THEN << >>
  ELSE NCarry([k \in 1..(Len(a) + Len(b) - 1) |->
                 NColumn(a, b, k,
                         IF k > Len(b) THEN k + 1 - Len(b) ELSE 1,
                         IF k < Len(a) THEN k ELSE Len(a))],
              1, 0)

RECURSIVE NQuotDigit(_, _)
NQuotDigit(r, b) ==
  IF NCmp(r, b) < 0 THEN 0 ELSE 1 + NQuotDigit(NSub(r, b), b)

\* Long division, from the most significant digit of a down: q and r are the
\* quotient and the remainder of the digits above place i.
RECURSIVE NDivFrom(_, _, _, _, _)
NDivFrom(a, b, i, q, r) ==
  IF i = 0 THEN NTrim(q)
  ELSE LET r1 == NTrim(<<a[i]>> \o r)
           d  == NQuotDigit(r1, b)
           q2 == <<d>> \o q
           r2 == NSub(r1, NMulSmall(b, d))
       IN IF Len(q2) > 0 /\ Len(r2) >= 0
          THEN NDivFrom(a, b, i - 1, q2, r2)
          ELSE << >>

\* floor(a / b), for b # 0
NDiv(a, b) == NDivFrom(a, b, Len(a), << >>, << >>)

(***************************************************************************)
(* bignumber.js values.  k is "finite", "NaN" or "Infinity"; a finite     *)
(* value is s * c * 10^e with c a natural whose lowest digit is not 0     *)
(* (zero is s = 1, c = << >>, e = 0).  A field the reserve does not carry *)
(* is the JavaScript value undefined.                                     *)
(***************************************************************************)
undefined == [k |-> "undefined", s |-> 1, c |-> << >>, e |-> 0]
NaN       == [k |-> "NaN", s |-> 1, c |-> << >>, e |-> 0]
Infinity(sign) == [k |-> "Infinity", s |-> sign, c |-> << >>, e |-> 0]

RECURSIVE LowZeros(_)
LowZeros(c) == IF c = << >> \/ Head(c) # 0 THEN 0 ELSE 1 + LowZeros(Tail(c))

\* The finite value sign * c * 10^e in its normal form.
Finite(sign, c, e) ==
  LET t == NTrim(c)
      z == LowZeros(t)
  IN IF t = << >> THEN [k |-> "finite", s |-> 1, c |-> << >>, e |-> 0]
     ELSE [k |-> "finite", s |-> sign, c |-> SubSeq(t, z + 1, Len(t)), e |-> e + z]

\* n * 10^e for a machine integer n >= 0: how the inputs below are written.
Dec(n, e) == Finite(1, NFromInt(n), e)

Zero == Dec(0, 0)
One  == Dec(1, 0)

\* bignumber.js DECIMAL_PLACES and ROUNDING_MODE (ROUND_HALF_UP) defaults,
\* which dividedBy applies.
DECIMAL_PLACES == 20

\* new BigNumber(v): undefined is not a number.
BigNumber(v) == IF v.k = "undefined" THEN NaN ELSE v

isNaN(x)    == x.k = "NaN"
isFinite(x) == x.k = "finite"
isZero(x)   == x.k = "finite" /\ x.c = << >>

\* The coefficients of two finite values over their common power of ten.
Aligned(x, y) ==
  LET m == IF x.e < y.e THEN x.e ELSE y.e
  IN [a |-> NShift(x.c, x.e - m), b |-> NShift(y.c, y.e - m), e |-> m]

times(x, v) ==
  LET y == BigNumber(v)
  IN IF isNaN(x) \/ isNaN(y) THEN NaN
     ELSE IF x.k = "Infinity" \/ y.k = "Infinity"
          THEN (IF isZero(x) \/ isZero(y) THEN NaN ELSE Infinity(x.s * y.s))
     ELSE Finite(x.s * y.s, NMul(x.c, y.c), x.e + y.e)

multipliedBy(x, v) == times(x, v)

plus(x, v) ==
  LET y == BigNumber(v)
  IN IF isNaN(x) \/ isNaN(y) THEN NaN
     ELSE IF x.k = "Infinity"
          THEN (IF y.k = "Infinity" /\ y.s # x.s THEN NaN ELSE x)
     ELSE IF y.k = "Infinity" THEN y
     ELSE LET al == Aligned(x, y)
          IN IF x.s = y.s THEN Finite(x.s, NAdd(al.a, al.b), al.e)
             ELSE IF NCmp(al.a, al.b) >= 0
                  THEN Finite(x.s, NSub(al.a, al.b), al.e)
                  ELSE Finite(y.s, NSub(al.b, al.a), al.e)

negated(x) == IF x.k = "NaN" \/ isZero(x) THEN x ELSE [x EXCEPT !.s = -x.s]

minus(x, v) == plus(x, negated(BigNumber(v)))

\* x * 10^n, exactly.
shiftedBy(x, n) == IF isFinite(x) THEN Finite(x.s, x.c, x.e + n) ELSE x

\* x / y of two finite non-zero values, rounded half-up to DECIMAL_PLACES places.
RoundedQuotient(x, y) ==
  LET t   == DECIMAL_PLACES + x.e - y.e
      num == IF t >= 0 THEN NShift(x.c, t) ELSE x.c
      den == IF t >= 0 THEN y.c ELSE NShift(y.c, -t)
  IN Finite(x.s * y.s,
            NDiv(NAdd(NMulSmall(num, 2), den), NMulSmall(den, 2)),
            -DECIMAL_PLACES)

dividedBy(x, v) ==
  LET y == BigNumber(v)
  IN IF isNaN(x) \/ isNaN(y) THEN NaN
     ELSE IF (isZero(x) /\ isZero(y)) \/ (x.k = "Infinity" /\ y.k = "Infinity")
          THEN NaN
     ELSE IF isZero(x) \/ y.k = "Infinity" THEN Zero
     ELSE IF isZero(y) \/ x.k = "Infinity" THEN Infinity(x.s * y.s)
     ELSE RoundedQuotient(x, y)

\* x.comparedTo(y): -1, 0, 1, or 2 for null (a NaN on either side).
comparedTo(x, v) ==
  LET y == BigNumber(v)
  IN IF isNaN(x) \/ isNaN(y) THEN 2
     ELSE IF x.k = "Infinity" \/ y.k = "Infinity"
          THEN (IF x.k = y.k /\ x.s = y.s THEN 0
                ELSE IF x.k = "Infinity" THEN x.s
                ELSE -y.s)
     ELSE IF isZero(x) /\ isZero(y) THEN 0
     ELSE IF isZero(x) THEN -y.s
     ELSE IF isZero(y) THEN x.s
     ELSE IF x.s # y.s THEN x.s
     ELSE LET al == Aligned(x, y) IN x.s * NCmp(al.a, al.b)

isGreaterThanOrEqualTo(x, v) == comparedTo(x, v) \in {0, 1}
isGreaterThan(x, v)          == comparedTo(x, v) = 1
isEqualTo(x, v)              == comparedTo(x, v) = 0

\* BigNumber.max(a, b): NaN if either is not a number.
max(a, b) ==
  LET x == BigNumber(a)
      y == BigNumber(b)
  IN IF isNaN(x) \/ isNaN(y) THEN NaN
     ELSE IF isGreaterThan(y, x) THEN y ELSE x


(***************************************************************************)
(* bn.js integers (the raw on-chain amounts) are naturals; toString gives *)
(* their decimal digits, most significant first, and new BigNumber(string)*)
(* reads such a string back.                                              *)
(***************************************************************************)
Reverse(q) == [i \in 1..Len(q) |-> q[Len(q) + 1 - i]]

\* The bn.js integer n * 10^z, for a machine integer n >= 0.
BN(n, z) == NShift(NFromInt(n), z)

bnToString(n) == IF n = << >> THEN <<0>> ELSE Reverse(n)

bnIsZero(n) == n = << >>

BigNumberOfString(str) == Finite(1, Reverse(str), 0)

\* classes/constants: the largest unsigned 64-bit integer, as a string.
U64_MAX == <<1, 8, 4, 4, 6, 7, 4, 4, 0, 7, 3, 7, 0, 9, 5, 5, 1, 6, 1, 5>>

\* The wad scale: 18 decimal places.
WAD_DECIMALS == 18

(***************************************************************************)
(* The inputs: reserves, pools and obligations.                           *)
(***************************************************************************)
MaxPositions == 3

SOL ==
  [address |-> "SOL", symbol |-> "SOL", decimals |-> 9,
   price |-> Dec(20, 0), emaPrice |-> Dec(25, 0), minPrice |-> Dec(20, 0),
   cTokenExchangeRate |-> Dec(105, -2), cumulativeBorrowRate |-> Dec(2, 0),
   loanToValueRatio |-> Dec(75, -2), liquidationThreshold |-> Dec(8, -1),
   borrowWeight |-> Dec(15, -1)]

USDT ==
  [address |-> "USDT", symbol |-> "USDT", decimals |-> 6,
   price |-> Dec(2, 0), emaPrice |-> undefined, minPrice |-> Dec(2, 0),
   cTokenExchangeRate |-> Dec(1, 0), cumulativeBorrowRate |-> Dec(1, 0),
   loanToValueRatio |-> Dec(8, -1), liquidationThreshold |-> Dec(85, -2),
   borrowWeight |-> Dec(1, 0)]

USDC ==
  [address |-> "USDC", symbol |-> "USDC", decimals |-> 6,
   price |-> Dec(1, 0), emaPrice |-> undefined, minPrice |-> Dec(1, 0),
   cTokenExchangeRate |-> Dec(1, 0), cumulativeBorrowRate |-> Dec(3, 0),
   loanToValueRatio |-> Dec(8, -1), liquidationThreshold |-> Dec(85, -2),
   borrowWeight |-> undefined]

MNGO ==
  [address |-> "MNGO", symbol |-> "MNGO", decimals |-> 6,
   price |-> Dec(2, 0), emaPrice |-> undefined, minPrice |-> undefined,
   cTokenExchangeRate |-> Dec(1, 0), cumulativeBorrowRate |-> Dec(1, 0),
   loanToValueRatio |-> Dec(0, 0), liquidationThreshold |-> Dec(0, 0),
   borrowWeight |-> Dec(2, 0)]

UST ==
  [address |-> "UST", symbol |-> "UST", decimals |-> 6,
   price |-> Dec(0, 0), emaPrice |-> undefined, minPrice |-> Dec(0, 0),
   cTokenExchangeRate |-> Dec(1, 0), cumulativeBorrowRate |-> Dec(1, 0),
   loanToValueRatio |-> Dec(5, -1), liquidationThreshold |-> Dec(6, -1),
   borrowWeight |-> Dec(1, 0)]

Pools ==
  { [address |-> "main",  reserves |-> <<SOL, USDT, USDC, MNGO, UST>>],
    [address |-> "small", reserves |-> <<USDC, UST, SOL>>] }

\* Raw deposit amounts a position may be raised to (in the collateral comparisons).
DepositAmounts == { BN(2, 9), BN(3, 9) }

DepositChoices ==
  { [depositReserve |-> "SOL",  depositedAmount |-> BN(0, 0)],
    [depositReserve |-> "SOL",  depositedAmount |-> BN(2, 9)],
    [depositReserve |-> "USDT", depositedAmount |-> BN(1, 8)],
    [depositReserve |-> "MNGO", depositedAmount |-> BN(1, 8)],
    [depositReserve |-> "GONE", depositedAmount |-> BN(5, 0)] }

BorrowChoices ==
  { [borrowReserve |-> "GONE", borrowedAmountWads |-> BN(0, 0),
     cumulativeBorrowRateWads |-> BN(0, 0)],
    [borrowReserve |-> "SOL",  borrowedAmountWads |-> NAdd(BN(1, 27), BN(25, 5)),
     cumulativeBorrowRateWads |-> BN(1, 18)],
    [borrowReserve |-> "USDC", borrowedAmountWads |-> BN(5, 25),
     cumulativeBorrowRateWads |-> BN(3, 18)],
    [borrowReserve |-> "SOL",  borrowedAmountWads |-> BN(1, 27),
     cumulativeBorrowRateWads |-> BN(0, 0)],
    [borrowReserve |-> "UST",  borrowedAmountWads |-> BN(1, 24),
     cumulativeBorrowRateWads |-> BN(0, 0)],
    [borrowReserve |-> "GONE", borrowedAmountWads |-> BN(7, 24),
     cumulativeBorrowRateWads |-> BN(1, 18)] }

Obligations ==
  UNION { { [pubkey |-> "obligation",
             info |-> [lendingMarket |-> "market", deposits |-> ds, borrows |-> bs]] :
              ds \in [1..n[1] -> DepositChoices], bs \in [1..n[2] -> BorrowChoices] } :
          n \in { m \in (0..MaxPositions) \X (0..MaxPositions) :
                    m[1] + m[2] <= MaxPositions } }

(***************************************************************************)
(* formatObligation, stage by stage.                                      *)
(***************************************************************************)
RECURSIVE FindFrom(_, _, _)
FindFrom(reserves, address, i) ==
  IF i > Len(reserves) THEN 0
  ELSE IF reserves[i].address = address THEN i
  ELSE FindFrom(reserves, address, i + 1)

\* pool.reserves.find((r) => r.address === address): its place, 0 for undefined.
find(reserves, address) == FindFrom(reserves, address, 1)

\* A value in a condition: undefined is false, a BigNumber object is true.
Truthy(v) == v.k # "undefined"

\* A slip: the zero-amount deposits are not filtered out.
NonZeroDeposits_Unfiltered(obligation) == obligation.info.deposits

NonZeroDeposits(obligation) ==
  SelectSeq(obligation.info.deposits,
            LAMBDA d : bnToString(d.depositedAmount) # <<0>>)

NonZeroBorrows(obligation) ==
  SelectSeq(obligation.info.borrows,
            LAMBDA b : bnToString(b.borrowedAmountWads) # <<0>>)

DepositAmount(d, reserve) ==
  times(shiftedBy(BigNumberOfString(bnToString(d.depositedAmount)),
                  -reserve.decimals),
        reserve.cTokenExchangeRate)

MinPriceValue(amount, reserve) == times(amount, reserve.minPrice)

DepositRecord(d, reserve) ==
  LET amount == DepositAmount(d, reserve)
  IN [liquidationThreshold |-> reserve.liquidationThreshold,
      loanToValueRatio |-> reserve.loanToValueRatio,
      symbol |-> reserve.symbol,
      price |-> reserve.price,
      reserveAddress |-> d.depositReserve,
      amount |-> amount,
      amountUsd |-> times(amount, reserve.price)]

\* The deposits' map callback over positions[i..]: it throws at the first
\* position whose reserve the pool lacks.
RECURSIVE DepositRecords(_, _, _, _)
DepositRecords(positions, pool, i, acc) ==
  IF i > Len(positions) THEN acc
  ELSE LET d == positions[i]
           j == find(pool.reserves, d.depositReserve)
       IN IF j = 0
          THEN [acc EXCEPT !.threw = TRUE,
                           !.error = "Deposit in obligation does not exist in the pool"]
          ELSE LET reserve == pool.reserves[j]
                   rec     == DepositRecord(d, reserve)
               IN DepositRecords(positions, pool, i + 1,
                    [threw |-> FALSE, error |-> "",
                     deposits |-> Append(acc.deposits, rec),
                     minPriceUserTotalSupply |->
                       plus(acc.minPriceUserTotalSupply,
                            MinPriceValue(rec.amount, reserve)),
                     minPriceBorrowLimit |->
                       plus(acc.minPriceBorrowLimit,
                            times(MinPriceValue(rec.amount, reserve),
                                  reserve.loanToValueRatio))])

MapDeposits(obligation, pool) ==
  DepositRecords(NonZeroDeposits(obligation), pool, 1,
                 [threw |-> FALSE, error |-> "", deposits |-> << >>,
                  minPriceUserTotalSupply |-> Zero,
                  minPriceBorrowLimit |-> Zero])

\* A slip: the snapshot index is divided by as raw wads, not rescaled.
BorrowAmount_UnscaledSnapshot(b, reserve) ==
  dividedBy(times(shiftedBy(BigNumberOfString(bnToString(b.borrowedAmountWads)),
                            -WAD_DECIMALS - reserve.decimals),
                  reserve.cumulativeBorrowRate),
            BigNumberOfString(bnToString(b.cumulativeBorrowRateWads)))

BorrowAmount(b, reserve) ==
  dividedBy(times(shiftedBy(BigNumberOfString(bnToString(b.borrowedAmountWads)),
                            -WAD_DECIMALS - reserve.decimals),
                  reserve.cumulativeBorrowRate),
            shiftedBy(BigNumberOfString(bnToString(b.cumulativeBorrowRateWads)),
                      -WAD_DECIMALS))

MaxPrice(reserve) ==
  IF Truthy(reserve.emaPrice) THEN max(reserve.emaPrice, reserve.price)
  ELSE reserve.price

ConservativeWeight(reserve) ==
  IF Truthy(reserve.borrowWeight) THEN reserve.borrowWeight
  ELSE BigNumberOfString(U64_MAX)

WeightedAmountUsd(reserve, amountUsd) ==
  multipliedBy(BigNumber(reserve.borrowWeight), amountUsd)

BorrowRecord(b, reserve) ==
  LET amount    == BorrowAmount(b, reserve)
      amountUsd == times(amount, reserve.price)
  IN [liquidationThreshold |-> reserve.liquidationThreshold,
      loanToValueRatio |-> reserve.loanToValueRatio,
      symbol |-> reserve.symbol,
      price |-> reserve.price,
      reserveAddress |-> b.borrowReserve,
      amount |-> amount,
      amountUsd |-> amountUsd,
      weightedAmountUsd |-> WeightedAmountUsd(reserve, amountUsd)]

RECURSIVE BorrowRecords(_, _, _, _)
BorrowRecords(positions, pool, i, acc) ==
  IF i > Len(positions) THEN acc
  ELSE LET b == positions[i]
           j == find(pool.reserves, b.borrowReserve)
       IN IF j = 0
          THEN [acc EXCEPT !.threw = TRUE,
                           !.error = "Borrow in obligation does not exist in the pool"]
          ELSE LET reserve == pool.reserves[j]
                   rec     == BorrowRecord(b, reserve)
               IN BorrowRecords(positions, pool, i + 1,
                    [threw |-> FALSE, error |-> "",
                     borrows |-> Append(acc.borrows, rec),
                     maxPriceUserTotalWeightedBorrow |->
                       plus(acc.maxPriceUserTotalWeightedBorrow,
                            times(times(rec.amount, MaxPrice(reserve)),
                                  ConservativeWeight(reserve)))])

\* A slip: a borrow whose reserve the pool lacks is skipped, not thrown on.
MapBorrows_SkipMissing(obligation, pool) ==
  BorrowRecords(SelectSeq(NonZeroBorrows(obligation),
                          LAMBDA b : find(pool.reserves, b.borrowReserve) # 0),
                pool, 1,
                [threw |-> FALSE, error |-> "", borrows |-> << >>,
                 maxPriceUserTotalWeightedBorrow |-> Zero])

MapBorrows(obligation, pool) ==
  BorrowRecords(NonZeroBorrows(obligation), pool, 1,
                [threw |-> FALSE, error |-> "", borrows |-> << >>,
                 maxPriceUserTotalWeightedBorrow |-> Zero])

\* records.reduce((acc, r) => acc.plus(r.amountUsd), 0), from records[i] on.
RECURSIVE SumAmountUsd(_, _, _)
SumAmountUsd(records, i, acc) ==
  IF i > Len(records) THEN acc
  ELSE SumAmountUsd(records, i + 1, plus(acc, records[i].amountUsd))

RECURSIVE SumWeightedAmountUsd(_, _, _)
SumWeightedAmountUsd(records, i, acc) ==
  IF i > Len(records) THEN acc
  ELSE SumWeightedAmountUsd(records, i + 1, plus(acc, records[i].weightedAmountUsd))

RECURSIVE SumBorrowLimit(_, _, _)
SumBorrowLimit(deposits, i, acc) ==
  IF i > Len(deposits) THEN acc
  ELSE SumBorrowLimit(deposits, i + 1,
         plus(times(deposits[i].amountUsd, deposits[i].loanToValueRatio), acc))

RECURSIVE SumLiquidationThreshold(_, _, _)
SumLiquidationThreshold(deposits, i, acc) ==
  IF i > Len(deposits) THEN acc
  ELSE SumLiquidationThreshold(deposits, i + 1,
         plus(times(deposits[i].amountUsd, deposits[i].liquidationThreshold), acc))

TotalSupplyValue(deposits) == SumAmountUsd(deposits, 1, Zero)
TotalBorrowValue(borrows) == SumAmountUsd(borrows, 1, Zero)
WeightedTotalBorrowValue(borrows) == SumWeightedAmountUsd(borrows, 1, Zero)
BorrowLimit(deposits) == SumBorrowLimit(deposits, 1, Zero)
LiquidationThreshold(deposits) == SumLiquidationThreshold(deposits, 1, Zero)

LiquidationThresholdFactor(liquidationThreshold, totalSupplyValue) ==
  IF isZero(totalSupplyValue) THEN Zero
  ELSE dividedBy(liquidationThreshold, totalSupplyValue)

BorrowLimitFactor(borrowLimit, totalSupplyValue) ==
  IF isZero(totalSupplyValue) THEN Zero
  ELSE dividedBy(borrowLimit, totalSupplyValue)

\* A slip: the division is not guarded.
BorrowUtilization_Unguarded(totalBorrowValue, borrowLimit) ==
  dividedBy(totalBorrowValue, borrowLimit)

\* A slip: the operands of the division are swapped.
BorrowUtilization_Swapped(totalBorrowValue, borrowLimit) ==
  IF isZero(borrowLimit) THEN Zero
  ELSE dividedBy(borrowLimit, totalBorrowValue)

BorrowUtilization(totalBorrowValue, borrowLimit) ==
  IF isZero(borrowLimit) THEN Zero
  ELSE dividedBy(totalBorrowValue, borrowLimit)

WeightedBorrowUtilization(weightedTotalBorrowValue, borrowLimit, minPriceBorrowLimit) ==
  IF isZero(minPriceBorrowLimit) THEN Zero
  ELSE dividedBy(weightedTotalBorrowValue, borrowLimit)

IsBorrowLimitReached(borrowUtilization) ==
  isGreaterThanOrEqualTo(borrowUtilization, One)

BorrowOverSupply(totalBorrowValue, totalSupplyValue) ==
  IF isZero(totalSupplyValue) THEN Zero
  ELSE dividedBy(totalBorrowValue, totalSupplyValue)

Positions(obligation) ==
  Len(SelectSeq(obligation.info.deposits,
                LAMBDA d : ~bnIsZero(d.depositedAmount)))
  + Len(SelectSeq(obligation.info.borrows,
                  LAMBDA b : ~bnIsZero(b.borrowedAmountWads)))

WeightedConservativeBorrowUtilization(maxPriceUserTotalWeightedBorrow, minPriceBorrowLimit) ==
  IF isZero(minPriceBorrowLimit) THEN Zero
  ELSE dividedBy(maxPriceUserTotalWeightedBorrow, minPriceBorrowLimit)

\* Lines 92-164: the aggregates and the returned object.
Aggregate(obligation, deps, bors, minSupply, minLimit, maxBorrow) ==
  LET totalSupplyValue == TotalSupplyValue(deps)
      totalBorrowValue == TotalBorrowValue(bors)
      weightedTotalBorrowValue == WeightedTotalBorrowValue(bors)
      borrowLimit == BorrowLimit(deps)
      liquidationThreshold == LiquidationThreshold(deps)
      borrowUtilization == BorrowUtilization(totalBorrowValue, borrowLimit)
  IN [address |-> obligation.pubkey,
      positions |-> Positions(obligation),
      deposits |-> deps,
      borrows |-> bors,
      poolAddress |-> obligation.info.lendingMarket,
      totalSupplyValue |-> totalSupplyValue,
      totalBorrowValue |-> totalBorrowValue,
      borrowLimit |-> borrowLimit,
      liquidationThreshold |-> liquidationThreshold,
      netAccountValue |-> minus(totalSupplyValue, totalBorrowValue),
      liquidationThresholdFactor |->
        LiquidationThresholdFactor(liquidationThreshold, totalSupplyValue),
      borrowLimitFactor |-> BorrowLimitFactor(borrowLimit, totalSupplyValue),
      borrowUtilization |-> borrowUtilization,
      weightedConservativeBorrowUtilization |->
        WeightedConservativeBorrowUtilization(maxBorrow, minLimit),
      weightedBorrowUtilization |->
        WeightedBorrowUtilization(weightedTotalBorrowValue, borrowLimit, minLimit),
      isBorrowLimitReached |-> IsBorrowLimitReached(borrowUtilization),
      borrowOverSupply |-> BorrowOverSupply(totalBorrowValue, totalSupplyValue),
      weightedTotalBorrowValue |-> weightedTotalBorrowValue,
      minPriceUserTotalSupply |-> minSupply,
      minPriceBorrowLimit |-> minLimit,
      maxPriceUserTotalWeightedBorrow |-> maxBorrow]

\* The whole call: what it throws, or the report it returns (in a sequence of
\* at most one element).
formatObligation(obligation, pool) ==
  LET ds == MapDeposits(obligation, pool)
  IN IF ds.threw THEN [threw |-> TRUE, error |-> ds.error, report |-> << >>]
     ELSE LET bs == MapBorrows(obligation, pool)
          IN IF bs.threw THEN [threw |-> TRUE, error |-> bs.error, report |-> << >>]
             ELSE [threw |-> FALSE, error |-> "",
                   report |-> <<Aggregate(obligation, ds.deposits, bs.borrows,
                                          ds.minPriceUserTotalSupply,
                                          ds.minPriceBorrowLimit,
                                          bs.maxPriceUserTotalWeightedBorrow)>>]

(***************************************************************************)
(* One call of formatObligation as a state machine: pc is the place in    *)
(* the function body, the other variables are its locals and its outcome. *)
(***************************************************************************)
VARIABLES obligation, pool, pc, deposits, borrows,
          minPriceUserTotalSupply, minPriceBorrowLimit,
          maxPriceUserTotalWeightedBorrow, returned, error

vars == <<obligation, pool, pc, deposits, borrows,
          minPriceUserTotalSupply, minPriceBorrowLimit,
          maxPriceUserTotalWeightedBorrow, returned, error>>

Init ==
  /\ obligation \in Obligations
  /\ pool \in Pools
  /\ pc = "deposits"
  /\ deposits = << >>
  /\ borrows = << >>
  /\ minPriceUserTotalSupply = Zero
  /\ minPriceBorrowLimit = Zero
  /\ maxPriceUserTotalWeightedBorrow = Zero
  /\ returned = << >>
  /\ error = ""

\* Lines 19-50.
MapDepositsStep ==
  /\ pc = "deposits"
  /\ LET r == MapDeposits(obligation, pool)
     IN IF r.threw
        THEN /\ pc' = "threw"
             /\ error' = r.error
             /\ UNCHANGED <<deposits, minPriceUserTotalSupply, minPriceBorrowLimit>>
        ELSE /\ pc' = "borrows"
             /\ deposits' = r.deposits
             /\ minPriceUserTotalSupply' = r.minPriceUserTotalSupply
             /\ minPriceBorrowLimit' = r.minPriceBorrowLimit
             /\ UNCHANGED error
  /\ UNCHANGED <<obligation, pool, borrows, maxPriceUserTotalWeightedBorrow, returned>>

\* Lines 52-90.
MapBorrowsStep ==
  /\ pc = "borrows"
  /\ LET r == MapBorrows(obligation, pool)
     IN IF r.threw
        THEN /\ pc' = "threw"
             /\ error' = r.error
             /\ UNCHANGED <<borrows, maxPriceUserTotalWeightedBorrow>>
        ELSE /\ pc' = "aggregate"
             /\ borrows' = r.borrows
             /\ maxPriceUserTotalWeightedBorrow' = r.maxPriceUserTotalWeightedBorrow
             /\ UNCHANGED error
  /\ UNCHANGED <<obligation, pool, deposits, minPriceUserTotalSupply,
                 minPriceBorrowLimit, returned>>

\* Lines 92-164.
AggregateStep ==
  /\ pc = "aggregate"
  /\ pc' = "returned"
  /\ returned' = <<Aggregate(obligation, deposits, borrows,
                             minPriceUserTotalSupply, minPriceBorrowLimit,
                             maxPriceUserTotalWeightedBorrow)>>
  /\ UNCHANGED <<obligation, pool, deposits, borrows, minPriceUserTotalSupply,
                 minPriceBorrowLimit, maxPriceUserTotalWeightedBorrow, error>>

Next == MapDepositsStep \/ MapBorrowsStep \/ AggregateStep

Spec == Init /\ [][Next]_vars

Report == returned[1]

(***************************************************************************)
(* What the properties below speak of, read off the inputs directly.      *)
(***************************************************************************)
InPool(address) ==
  \E i \in 1..Len(pool.reserves) : pool.reserves[i].address = address

ReserveAt(address) ==
  pool.reserves[CHOOSE i \in 1..Len(pool.reserves) :
                  /\ pool.reserves[i].address = address
                  /\ \A j \in 1..(i - 1) : pool.reserves[j].address # address]

LiveDeposits == SelectSeq(obligation.info.deposits,
                          LAMBDA d : d.depositedAmount # << >>)

LiveBorrows == SelectSeq(obligation.info.borrows,
                         LAMBDA b : b.borrowedAmountWads # << >>)

HasUnresolvedPosition ==
  \/ \E i \in 1..Len(LiveDeposits) : ~InPool(LiveDeposits[i].depositReserve)
  \/ \E i \in 1..Len(LiveBorrows) : ~InPool(LiveBorrows[i].borrowReserve)

\* x is a number (or +Infinity) that is at least 1, read off its digits.
AtLeastOne(x) ==
  \/ x.k = "Infinity" /\ x.s = 1
  \/ x.k = "finite" /\ x.s = 1 /\ x.c # << >> /\ Len(x.c) + x.e >= 1

Positive(x) == x.k = "finite" /\ x.s = 1 /\ x.c # << >>

(***************************************************************************)
(* C1: a non-zero deposit or borrow whose reserve the pool lacks makes    *)
(* formatObligation throw: the call never reaches the aggregation and     *)
(* never returns a report, wherever the position sits and however many    *)
(* other positions resolve.                                               *)
(***************************************************************************)
C1_MissingReserveAborts ==
  HasUnresolvedPosition =>
    /\ pc \in {"deposits", "borrows", "threw"}
    /\ returned = << >>
    /\ (pc = "threw" => error # "")

\* A call that threw on a borrow after its deposits had all resolved.
C1_Witness ==
  /\ pc = "threw"
  /\ HasUnresolvedPosition
  /\ Len(deposits) >= 1
  /\ error = "Borrow in obligation does not exist in the pool"

(***************************************************************************)
(* C2: every ratio of the report is 0 whenever the denominator of its     *)
(* division is zero.                                                      *)
(***************************************************************************)
C2_ZeroDenominatorGivesZero ==
  pc = "returned" =>
    /\ isZero(Report.totalSupplyValue) =>
         /\ isZero(Report.liquidationThresholdFactor)
         /\ isZero(Report.borrowLimitFactor)
         /\ isZero(Report.borrowOverSupply)
    /\ isZero(Report.borrowLimit) =>
         /\ isZero(Report.borrowUtilization)
         /\ isZero(Report.weightedBorrowUtilization)
    /\ isZero(Report.minPriceBorrowLimit) =>
         isZero(Report.weightedConservativeBorrowUtilization)

(***************************************************************************)
(* C3: isBorrowLimitReached is true exactly when borrowUtilization >= 1,  *)
(* and with borrowLimit = 0 the report has borrowUtilization = 0 and      *)
(* isBorrowLimitReached = false, whatever the debt.                       *)
(***************************************************************************)
C3_BorrowLimitReached ==
  pc = "returned" =>
    /\ Report.isBorrowLimitReached <=> AtLeastOne(Report.borrowUtilization)
    /\ isZero(Report.borrowLimit) =>
         /\ Report.borrowUtilization = Zero
         /\ ~Report.isBorrowLimitReached

\* A report with no borrow limit and a positive debt.
C3_Witness ==
  /\ pc = "returned"
  /\ isZero(Report.borrowLimit)
  /\ Positive(Report.totalBorrowValue)

(***************************************************************************)
(* C4: zero-amount deposits and borrows are inert: the outcome of the     *)
(* call (the whole report, or the error) is the outcome for the           *)
(* obligation with every zero-amount entry removed, and the report has    *)
(* one record and one counted position per non-zero entry.                *)
(***************************************************************************)
WithoutZeroEntries(o) ==
  [o EXCEPT !.info.deposits = SelectSeq(@, LAMBDA d : d.depositedAmount # << >>),
            !.info.borrows = SelectSeq(@, LAMBDA b : b.borrowedAmountWads # << >>)]

\* C4: the outcome is that of the obligation without its zero-amount entries.
C4_ZeroEntriesInert ==
  pc \in {"returned", "threw"} =>
    LET r == formatObligation(WithoutZeroEntries(obligation), pool)
    IN IF pc = "threw" THEN r.threw /\ r.error = error
       ELSE /\ ~r.threw
            /\ r.report = returned
            /\ Len(Report.deposits) = Len(LiveDeposits)
            /\ Len(Report.borrows) = Len(LiveBorrows)
            /\ Report.positions = Len(LiveDeposits) + Len(LiveBorrows)

\* A report for an obligation holding a zero deposit, a zero borrow and a
\* live position.
C4_Witness ==
  /\ pc = "returned"
  /\ Len(LiveDeposits) < Len(obligation.info.deposits)
  /\ Len(LiveBorrows) < Len(obligation.info.borrows)
  /\ Report.positions >= 1

\* The i-th live borrow's raw amount, snapshot index and reserve, as numbers.
RawBorrowAmount(b) ==
  Finite(1, b.borrowedAmountWads, -(WAD_DECIMALS + ReserveAt(b.borrowReserve).decimals))

SnapshotIndex(b) == Finite(1, b.cumulativeBorrowRateWads, -WAD_DECIMALS)

abs(x) == IF x.k = "finite" THEN [x EXCEPT !.s = 1] ELSE x

(***************************************************************************)
(* C5: for a non-zero borrow whose reserve has no borrowWeight, the       *)
(* sentinel weight U64_MAX is the weight of every weighted figure: the    *)
(* borrow adds amount x conservativePrice x U64_MAX to                    *)
(* maxPriceUserTotalWeightedBorrow, and its weightedAmountUsd is a number *)
(* that is at least U64_MAX x amountUsd.                                  *)
(***************************************************************************)
\* C5: an unset borrowWeight is U64_MAX in every weighted figure of the borrow.
C5_UnsetWeightIsSentinel ==
  pc = "returned" =>
    \A i \in 1..Len(LiveBorrows) :
      LET reserve == ReserveAt(LiveBorrows[i].borrowReserve)
          rec     == Report.borrows[i]
      IN ~Truthy(reserve.borrowWeight) =>
           /\ Len(LiveBorrows) = 1 =>
                Report.maxPriceUserTotalWeightedBorrow =
                  times(times(rec.amount, MaxPrice(reserve)),
                        BigNumberOfString(U64_MAX))
           /\ ~isNaN(rec.weightedAmountUsd)
           /\ isGreaterThanOrEqualTo(rec.weightedAmountUsd,
                                     times(BigNumberOfString(U64_MAX), rec.amountUsd))

(***************************************************************************)
(* C6: a non-zero deposit whose reserve has no minPrice is valued at the  *)
(* spot price in the conservative accumulators: minPriceUserTotalSupply   *)
(* is the sum of amount x (minPrice, or price when there is none) and     *)
(* minPriceBorrowLimit the sum of that x loanToValueRatio, both numbers.  *)
(***************************************************************************)
ConservativePrice(reserve) ==
  IF Truthy(reserve.minPrice) THEN reserve.minPrice ELSE reserve.price

RECURSIVE ExpectedMinSupply(_)
ExpectedMinSupply(i) ==
  IF i = 0 THEN Zero
  ELSE plus(ExpectedMinSupply(i - 1),
            times(deposits[i].amount,
                  ConservativePrice(ReserveAt(deposits[i].reserveAddress))))

RECURSIVE ExpectedMinLimit(_)
ExpectedMinLimit(i) ==
  IF i = 0 THEN Zero
  ELSE plus(ExpectedMinLimit(i - 1),
            times(times(deposits[i].amount,
                        ConservativePrice(ReserveAt(deposits[i].reserveAddress))),
                  deposits[i].loanToValueRatio))

\* C6: the conservative accumulators value a deposit with no minPrice at price.
C6_MinPriceFallsBackToSpot ==
  pc \in {"borrows", "aggregate", "returned"} =>
    /\ ~isNaN(minPriceUserTotalSupply)
    /\ ~isNaN(minPriceBorrowLimit)
    /\ minPriceUserTotalSupply = ExpectedMinSupply(Len(deposits))
    /\ minPriceBorrowLimit = ExpectedMinLimit(Len(deposits))

(***************************************************************************)
(* C7: an obligation with a non-zero borrow whose stored                  *)
(* cumulativeBorrowRateWads is zero makes formatObligation fail: no       *)
(* report is ever returned for it.                                        *)
(***************************************************************************)
HasZeroSnapshot ==
  \E i \in 1..Len(LiveBorrows) : LiveBorrows[i].cumulativeBorrowRateWads = << >>

\* C7: no report is returned for an obligation with a zero snapshot index.
C7_ZeroSnapshotIsFatal ==
  HasZeroSnapshot => pc # "returned" /\ returned = << >>

(***************************************************************************)
(* C8: raising one deposit's amount (hence its amountUsd), all else       *)
(* fixed, never lowers borrowLimit or totalSupplyValue, and never raises  *)
(* borrowUtilization.  As amended: never raises borrowUtilization when    *)
(* the report before the raise has a non-zero borrowLimit (with a zero    *)
(* borrowLimit the guard reports borrowUtilization 0, which new           *)
(* collateral raises to the true ratio).                                  *)
(***************************************************************************)
RaisedDeposit(o, i, a) == [o EXCEPT !.info.deposits[i].depositedAmount = a]

\* The raises of one deposit of the obligation: place and larger raw amount.
Raises ==
  { x \in (1..Len(obligation.info.deposits)) \X DepositAmounts :
      NCmp(x[2], obligation.info.deposits[x[1]].depositedAmount) = 1 }

\* r is the outcome after a raise, compared with the report before it.
RaiseKeepsOrder(r, guarded) ==
  ~r.threw =>
    /\ isGreaterThanOrEqualTo(r.report[1].borrowLimit, Report.borrowLimit)
    /\ isGreaterThanOrEqualTo(r.report[1].totalSupplyValue, Report.totalSupplyValue)
    /\ (guarded /\ isZero(Report.borrowLimit))
       \/ ~isGreaterThan(r.report[1].borrowUtilization, Report.borrowUtilization)

CollateralMonotone(guarded) ==
  pc = "returned" =>
    \A x \in Raises :
      RaiseKeepsOrder(formatObligation(RaisedDeposit(obligation, x[1], x[2]), pool),
                      guarded)

\* C8 (as amended): a raised deposit never lowers borrowLimit or
\* totalSupplyValue, and never raises borrowUtilization when the borrowLimit
\* before the raise is non-zero.
C8_CollateralMonotone == CollateralMonotone(TRUE)

\* C8 as first stated: borrowUtilization never rises, whatever the borrowLimit
\* before (read here on the obligations whose debt is a finite number, those
\* with no zero snapshot index).
C8_Original == ~HasZeroSnapshot => CollateralMonotone(FALSE)

\* A report with debt and a borrow limit, for an obligation one of whose
\* deposits can be raised.
C8_Witness ==
  /\ pc = "returned"
  /\ Raises # {}
  /\ Positive(Report.borrowLimit)
  /\ Positive(Report.borrowUtilization)

(***************************************************************************)
(* C9: a non-zero borrow with raw amount A and non-zero snapshot index I0 *)
(* is reported with amount A x cumulativeBorrowRate / I0.  As amended:    *)
(* with that quotient rounded half-up to 20 decimal places (so 2 x A, or  *)
(* A, to 20 places when the current index is 2 x I0, or I0).              *)
(***************************************************************************)
\* amount is q rounded half-up to DECIMAL_PLACES places, where q * den = num.
IsRoundedQuotient(amount, num, den) ==
  LET diff == minus(times(amount, den), num)
      half == times(Dec(5, -(DECIMAL_PLACES + 1)), den)
  IN /\ amount.k = "finite"
     /\ amount.e >= -DECIMAL_PLACES
     /\ isGreaterThanOrEqualTo(half, abs(diff))
     /\ isEqualTo(half, abs(diff)) => diff.s = 1

AccrualHolds(exact) ==
  pc = "returned" =>
    \A i \in 1..Len(LiveBorrows) :
      LET b    == LiveBorrows[i]
          num  == times(RawBorrowAmount(b),
                        ReserveAt(b.borrowReserve).cumulativeBorrowRate)
          amt  == Report.borrows[i].amount
      IN b.cumulativeBorrowRateWads # << >> =>
           IF exact THEN times(amt, SnapshotIndex(b)) = num
           ELSE IsRoundedQuotient(amt, num, SnapshotIndex(b))

\* C9 (as amended): each reported borrow amount is A x cumulativeBorrowRate / I0
\* rounded half-up to 20 decimal places.
C9_AccrualRounded == AccrualHolds(FALSE)

\* C9 as first stated: the amount is exactly A x cumulativeBorrowRate / I0.
C9_Original == AccrualHolds(TRUE)

\* A reported borrow whose reserve index is twice its snapshot index and
\* whose amount took the rounding.
C9_Witness ==
  /\ pc = "returned"
  /\ \E i \in 1..Len(LiveBorrows) :
       LET b == LiveBorrows[i]
       IN /\ b.cumulativeBorrowRateWads # << >>
          /\ ReserveAt(b.borrowReserve).cumulativeBorrowRate
               = times(Dec(2, 0), SnapshotIndex(b))
          /\ Report.borrows[i].amount # times(Dec(2, 0), RawBorrowAmount(b))

(***************************************************************************)
(* C10: when every referenced reserve has 0 <= minPrice <= price,         *)
(* non-negative loanToValueRatio, cTokenExchangeRate and                  *)
(* cumulativeBorrowRate and a configured non-negative borrowWeight, the   *)
(* conservative figures are never more lenient than the nominal ones:     *)
(* minPriceBorrowLimit <= borrowLimit, maxPriceUserTotalWeightedBorrow >= *)
(* weightedTotalBorrowValue, weightedConservativeBorrowUtilization >=     *)
(* weightedBorrowUtilization.                                             *)
(***************************************************************************)
NonNegative(x) == x.k = "finite" /\ x.s = 1

WellFormed(reserve) ==
  /\ Truthy(reserve.minPrice)
  /\ NonNegative(reserve.minPrice)
  /\ isGreaterThanOrEqualTo(reserve.price, reserve.minPrice)
  /\ NonNegative(reserve.loanToValueRatio)
  /\ NonNegative(reserve.cTokenExchangeRate)
  /\ NonNegative(reserve.cumulativeBorrowRate)
  /\ Truthy(reserve.borrowWeight)
  /\ NonNegative(reserve.borrowWeight)

ReferencedReservesWellFormed ==
  /\ \A i \in 1..Len(LiveDeposits) : WellFormed(ReserveAt(LiveDeposits[i].depositReserve))
  /\ \A i \in 1..Len(LiveBorrows) : WellFormed(ReserveAt(LiveBorrows[i].borrowReserve))

ConservativeDominates ==
  /\ isGreaterThanOrEqualTo(Report.borrowLimit, Report.minPriceBorrowLimit)
  /\ isGreaterThanOrEqualTo(Report.maxPriceUserTotalWeightedBorrow,
                            Report.weightedTotalBorrowValue)
  /\ isGreaterThanOrEqualTo(Report.weightedConservativeBorrowUtilization,
                            Report.weightedBorrowUtilization)

\* C10: over well-formed reserves the conservative figures dominate.
C10_ConservativeNeverMoreLenient ==
  (pc = "returned" /\ ReferencedReservesWellFormed) => ConservativeDominates

====
